---------------------------- MODULE Spec2Model ----------------------------
(***************************************************************************)
(* RaF (Refer-a-Friend) Telegram bot: the callback handler, the free-text  *)
(* message handler, the contest store and the ranking query.               *)
(*                                                                         *)
(* Every handler invocation is a task of the tokio runtime (bin/raf.rs:28, *)
(* #[tokio::main]); tasks of different events run concurrently and share   *)
(* only the SQLite store, which executes one statement at a time.  A step  *)
(* of the model is one statement on the store or one call of the Telegram  *)
(* API, together with the task-local code that follows it.  Statements     *)
(* that read tables nobody writes (users, channels) are folded into the    *)
(* step that follows them.                                                 *)
(*                                                                         *)
(* The step that ends an invocation leaves in `outcome` what the           *)
(* invocation did (its event, the messages it sent, its acknowledgements,  *)
(* whether it returned or panicked); Reap forgets it before the next step. *)
(***************************************************************************)
EXTENDS Integers, Sequences, FiniteSets, TLC

(***************************************************************************)
(* Bounds of the model.                                                    *)
(***************************************************************************)
MaxTime == 1        \* the clock runs from 0 to MaxTime
MaxInvites == 3     \* rows of invitations
NumUsers == 2       \* rows of users (Init)
NumChans == 1       \* rows of channels
MaxContests == 1    \* contests ever created (Init)
MaxTasks == 2       \* handler invocations in flight at once (Init)
WideUsers == 3      \* rows of users (InitWide)
WideContests == 2   \* contests ever created (InitTwo)
ManyChans == 3      \* rows of channels (InitChans)
MaxId == 12         \* the largest id a link carries
CrossChans == 2     \* rows of channels (InitCross)

Times == 0..MaxTime

Null == -1

VARIABLES
    users,         \* table users: id -> row
    channels,      \* table channels: id -> row
    contests,      \* table contests: id -> row, or NoContest
    nextContest,   \* AUTOINCREMENT counter of contests
    invitations,   \* table invitations: set of rows
    managed,       \* table being_managed_channels, in id order
    contacted,     \* table being_contacted_users, in id order
    now,           \* the wall clock (Utc::now)
    tasks,         \* the handler invocations in flight
    outcome        \* the handler invocation that completed in the latest step, if one did

vars == <<users, channels, contests, nextContest, invitations, managed, contacted,
          now, tasks, outcome>>

Users == DOMAIN users
Chans == DOMAIN channels
ContestIds == DOMAIN contests
TaskIds == DOMAIN tasks

(***************************************************************************)
(* The rows of users and channels.  Both tables are filled by flows that   *)
(* are not part of the contest machine (/start, registration) and are      *)
(* never updated or deleted from by the handlers.                          *)
(***************************************************************************)
\* users.username IS NOT NULL
HasUsername(u) == users[u].username

\* the channel credited to the other of two users
RegisteredBySomeoneElse(ch) == IF channels[ch].registered_by = 1 THEN 2 ELSE 1

\* channels.registered_by
RegisteredBy(ch) == channels[ch].registered_by

\* users::owners
owners == {RegisteredBy(ch) : ch \in Chans}

\* channels::get (channels registered by the user)
channels_get(u) == {ch \in Chans : RegisteredBy(ch) = u}

NoContest == [name |-> "", prize |-> "", end |-> Null, chan |-> Null,
              started_at |-> Null, stopped |-> FALSE, exists |-> FALSE]

NoEvent == [kind |-> "none", sender |-> Null, source |-> Null, dest |-> Null,
            chan |-> Null, contest |-> Null]

Idle == [pc |-> "idle", ev |-> NoEvent, todo |-> <<>>, sent |-> {},
         acks |-> 0, checks |-> 0, lookup |-> "", winner |-> Null, row |-> NoContest,
         ranks |-> <<>>]

(***************************************************************************)
(* The store: constraints of the schema and the statements the handlers    *)
(* execute.                                                                *)
(***************************************************************************)
\* a test of the wrong column: c.stopped
started_at_is_some_by_stopped(id) == contests[id].stopped

\* c.started_at.is_some()
started_at_is_some(id) == contests[id].started_at # Null

\* a test of the wrong column: c.started_at.is_none()
c_stopped_by_draft(id) == contests[id].started_at = Null

\* c.stopped
c_stopped(id) == contests[id].stopped

\* the comparison the other way round: now < c.end
finished_reversed(id, at) == at < contests[id].end

\* now > c.end
finished(id, at) == at > contests[id].end

\* contests::get: the row, if any.  The code unwraps the first row of the
\* result before looking at it, so a missing row is a panic, not None.
contests_get_panics(id) == ~contests[id].exists

\* a schema whose uniqueness is per contest: UNIQUE(source, dest, chan, contest)
InvitationInsertOkPerContest(source, dest, chan, contest) ==
    /\ source # dest
    /\ ~\E i \in invitations :
          i.source = source /\ i.dest = dest /\ i.chan = chan /\ i.contest = contest
    /\ contest \in ContestIds
    /\ contests[contest].exists

\* a schema without the CHECK (source <> dest)
InvitationInsertOkNoCheck(source, dest, chan, contest) ==
    /\ ~\E i \in invitations : i.source = source /\ i.dest = dest /\ i.chan = chan
    /\ contest \in ContestIds
    /\ contests[contest].exists

\* INSERT INTO invitations: CHECK (source <> dest), UNIQUE(source, dest, chan),
\* FOREIGN KEY(contest) REFERENCES contests(id)
InvitationInsertOk(source, dest, chan, contest) ==
    /\ source # dest
    /\ ~\E i \in invitations : i.source = source /\ i.dest = dest /\ i.chan = chan
    /\ contest \in ContestIds
    /\ contests[contest].exists

\* a store that lets only drafts go
ContestDeleteOkDraftOnly(id) ==
    /\ ~\E i \in invitations : i.contest = id
    /\ contests[id].started_at = Null
    /\ ~contests[id].stopped

\* a connection without PRAGMA foreign_keys
ContestDeleteOkUnchecked(id) == TRUE

\* DELETE FROM contests WHERE id = ?: with foreign_keys=1 the statement fails
\* while an invitation references the contest
ContestDeleteOk(id) == ~\E i \in invitations : i.contest = id

\* INSERT INTO contests: UNIQUE(name, chan)
ContestInsertOk(name, chan) ==
    ~\E id \in ContestIds :
        contests[id].exists /\ contests[id].name = name /\ contests[id].chan = chan

\* INSERT INTO being_contacted_users: user, owner and contest are NOT NULL
ContactedInsertOk(user, owner, contest) ==
    user # Null /\ owner # Null /\ contest # Null

(***************************************************************************)
(* contests::ranking: ROW_NUMBER() OVER (ORDER BY t.c, t.source DESC) over *)
(* the invitations of the contest grouped by source.                       *)
(***************************************************************************)
Inviters(inv, c) == {i.source : i \in {j \in inv : j.contest = c}}

InviteCount(inv, c, s) == Cardinality({i \in inv : i.contest = c /\ i.source = s})

\* ORDER BY t.c, t.source: ties broken by ascending id
RankBeforeSourceAscending(inv, c, a, b) ==
    \/ InviteCount(inv, c, a) < InviteCount(inv, c, b)
    \/ InviteCount(inv, c, a) = InviteCount(inv, c, b) /\ a < b

\* ORDER BY t.c alone: ties are left undecided
RankBeforeByCount(inv, c, a, b) ==
    InviteCount(inv, c, a) < InviteCount(inv, c, b)

\* the window's ORDER BY: a comes before b
RankBefore(inv, c, a, b) ==
    \/ InviteCount(inv, c, a) < InviteCount(inv, c, b)
    \/ InviteCount(inv, c, a) = InviteCount(inv, c, b) /\ a > b

RowNumber(inv, c, s) ==
    1 + Cardinality({t \in Inviters(inv, c) : RankBefore(inv, c, t, s)})

\* the rows in rank order
ranking(inv, c) ==
    [r \in 1..Cardinality(Inviters(inv, c)) |->
        LET s == CHOOSE u \in Inviters(inv, c) : RowNumber(inv, c, u) = r
        IN  [rank |-> r, invites |-> InviteCount(inv, c, s), user |-> s]]


(***************************************************************************)
(* The Telegram API as the handlers see it.                                *)
(***************************************************************************)
\* the variants of ChatMember
MemberStatus == {"administrator", "creator", "member", "restricted", "kicked", "left"}

\* get_chat_member: a ChatMember, or an error of the platform; the model
\* draws one status that counts as joined, one that does not, and the error
LookupResults == {"member", "left", "error"}

\* a closure whose arms are all false
member_joined_never(m) == FALSE

\* the two arms of the match exchanged
member_joined_swapped(m) == m \in {"kicked", "left"}

\* the closure member_joined of the accept branch
member_joined(m) == m \in {"administrator", "creator", "member", "restricted"}

\* validate_users: in_channel = member.is_ok()
in_channel(m) == m # "error"

(***************************************************************************)
(* Callback data: a name followed by integer arguments.  The handler tests *)
(* the data against its markers in a fixed order, the first match wins.    *)
(***************************************************************************)
\* str::contains / str::starts_with on the names the model draws
HasPrefix(name, p) ==
    \/ name = p
    \/ p = "delete" /\ name = "delete_contest"
    \/ p = "start" /\ name = "start_contest"
    \/ p = "stop" /\ name = "stop_contest"

\* a chain that tests the selectors' names before the per-contest ones
DispatchSelectorsFirst(name) ==
    IF name = "tick" THEN "accept"
    ELSE IF name = "cross" THEN "reject"
    ELSE IF HasPrefix(name, "manage") THEN "manage"
    ELSE IF HasPrefix(name, "main") THEN "main"
    ELSE IF HasPrefix(name, "create") THEN "create"
    ELSE IF HasPrefix(name, "delete") THEN "delete"
    ELSE IF HasPrefix(name, "stop") THEN "stop"
    ELSE IF HasPrefix(name, "start") THEN "start"
    ELSE IF HasPrefix(name, "delete_contest") THEN "delete_contest"
    ELSE IF HasPrefix(name, "start_contest") THEN "start_contest"
    ELSE IF HasPrefix(name, "stop_contest") THEN "stop_contest"
    ELSE IF HasPrefix(name, "list") THEN "list"
    ELSE "unknown"

\* the if / else-if chain that sets the flags
Dispatch(name) ==
    IF name = "tick" THEN "accept"
    ELSE IF name = "cross" THEN "reject"
    ELSE IF HasPrefix(name, "manage") THEN "manage"
    ELSE IF HasPrefix(name, "main") THEN "main"
    ELSE IF HasPrefix(name, "create") THEN "create"
    ELSE IF HasPrefix(name, "delete_contest") THEN "delete_contest"
    ELSE IF HasPrefix(name, "start_contest") THEN "start_contest"
    ELSE IF HasPrefix(name, "stop_contest") THEN "stop_contest"
    ELSE IF HasPrefix(name, "delete") THEN "delete"
    ELSE IF HasPrefix(name, "stop") THEN "stop"
    ELSE IF HasPrefix(name, "start") THEN "start"
    ELSE IF HasPrefix(name, "list") THEN "list"
    ELSE "unknown"

\* the number of arguments each branch unwraps
ArgsNeeded(kind) ==
    CASE kind = "accept" -> 4
      [] kind \in {"delete_contest", "start_contest", "stop_contest"} -> 2
      [] kind \in {"reject", "unknown"} -> 0
      [] OTHER -> 1

\* iter.next().unwrap().parse().unwrap() panics on a missing argument
ParsePanics(data) == Len(data.args) < ArgsNeeded(Dispatch(data.name))

\* the channel of the event: chan_id, and the SELECT on channels that
\* unwraps its first row
ChanOf(data) ==
    IF Dispatch(data.name) = "accept" THEN data.args[3] ELSE data.args[1]

\* the event a well-formed callback stands for
EventOf(data, sender) ==
    LET kind == Dispatch(data.name)
    IN  CASE kind = "accept" ->
               [kind |-> kind, sender |-> sender, source |-> data.args[1],
                dest |-> data.args[2], chan |-> data.args[3], contest |-> data.args[4]]
          [] kind \in {"delete_contest", "start_contest", "stop_contest"} ->
               [kind |-> kind, sender |-> sender, source |-> Null, dest |-> Null,
                chan |-> data.args[1], contest |-> data.args[2]]
          [] kind \in {"reject", "unknown"} ->
               [kind |-> kind, sender |-> sender, source |-> Null, dest |-> Null,
                chan |-> Null, contest |-> Null]
          [] OTHER ->
               [kind |-> kind, sender |-> sender, source |-> Null, dest |-> Null,
                chan |-> data.args[1], contest |-> Null]

(***************************************************************************)
(* The callbacks the bot's own buttons can carry.  An accept button is     *)
(* made by /start (commands.rs:320-355) for a source in users, a channel   *)
(* in channels and a contest that existed then, and is shown to dest in    *)
(* its private chat.  The management buttons are made by the manage menu   *)
(* and the selectors for a channel and one of its contests.                *)
(***************************************************************************)
EverCreated == 1..(nextContest - 1)

AcceptData ==
    {[name |-> "tick", args |-> <<s, d, ch, c>>] :
        s \in Users, d \in Users, ch \in Chans, c \in EverCreated}

ContestData ==
    {[name |-> n, args |-> <<ch, c>>] :
        n \in {"delete_contest", "start_contest", "stop_contest"},
        ch \in Chans, c \in EverCreated}

MenuData ==
    {[name |-> n, args |-> <<ch>>] :
        n \in {"manage", "main", "create", "delete", "stop", "start", "list"},
        ch \in Chans}

\* the button's channel is the channel of its contest, while the contest exists
ButtonConsistent(data) ==
    Dispatch(data.name) \in {"delete_contest", "start_contest", "stop_contest"}
        => (contests[data.args[2]].exists => contests[data.args[2]].chan = data.args[1])

FreeSlot(t) == tasks[t].pc = "idle" /\ \A u \in TaskIds : u < t => tasks[u].pc # "idle"

Begin(ev) == [Idle EXCEPT !.ev = ev]

\* the invocation returned
Done(rec) == [rec EXCEPT !.pc = "done", !.todo = <<>>]

\* the invocation panicked: the task is gone, nothing after the panic ran
Crashed(rec) == [rec EXCEPT !.pc = "crashed", !.todo = <<>>]

\* a step is taken once the completion of the step before has been seen
Ready == outcome = Idle

Say(rec, msgs, nacks) == [rec EXCEPT !.sent = @ \cup msgs, !.acks = @ + nacks]

StoreUnchanged ==
    UNCHANGED <<users, channels, contests, nextContest, invitations, managed, contacted>>


(***************************************************************************)
(* Init: the store after connection() has run SCHEMA on an empty database  *)
(* and the users and the channels have registered.  Users with an even id  *)
(* have a username; user 1 has registered every channel.                   *)
(***************************************************************************)
Registered(nusers, nchans) ==
    /\ users = [u \in 1..nusers |-> [username |-> u % 2 = 0]]
    /\ channels = [ch \in 1..nchans |-> [registered_by |-> 1]]

EmptyStore(ncontests, ntasks) ==
    /\ contests = [id \in 1..ncontests |-> NoContest]
    /\ nextContest = 1
    /\ invitations = {}
    /\ managed = <<>>
    /\ contacted = <<>>
    /\ now = 0
    /\ tasks = [t \in 1..ntasks |-> Idle]
    /\ outcome = Idle

\* two handler invocations at a time
Init == Registered(NumUsers, NumChans) /\ EmptyStore(MaxContests, MaxTasks)

\* one handler invocation at a time, more users
InitWide == Registered(WideUsers, NumChans) /\ EmptyStore(MaxContests, 1)

\* one handler invocation at a time, once a first contest has been created
\* (create, then a text of three rows) and started
InitTwo ==
    /\ Registered(NumUsers, NumChans)
    /\ contests = [id \in 1..WideContests |->
                     IF id = 1
                     THEN [name |-> "a", prize |-> "p", end |-> MaxTime, chan |-> 1,
                           started_at |-> 0, stopped |-> FALSE, exists |-> TRUE]
                     ELSE NoContest]
    /\ nextContest = 2
    /\ invitations = {}
    /\ managed = <<1>>
    /\ contacted = <<>>
    /\ now = 0
    /\ tasks = [t \in 1..1 |-> Idle]
    /\ outcome = Idle

\* three channels, the first and the third registered by user 1, the second
\* by user 2
InitChans ==
    /\ users = [u \in 1..NumUsers |-> [username |-> u % 2 = 0]]
    /\ channels = [ch \in 1..ManyChans |-> [registered_by |-> 2 - (ch % 2)]]
    /\ EmptyStore(MaxContests, 1)

\* more users, and two contests that user 1 has created and started on the
\* channel
InitPrune ==
    /\ Registered(WideUsers, NumChans)
    /\ contests = [id \in 1..WideContests |->
                     [name |-> IF id = 1 THEN "a" ELSE "b", prize |-> "p",
                      end |-> MaxTime, chan |-> 1,
                      started_at |-> 0, stopped |-> FALSE, exists |-> TRUE]]
    /\ nextContest = WideContests + 1
    /\ invitations = {}
    /\ managed = <<1, 1>>
    /\ contacted = <<>>
    /\ now = 0
    /\ tasks = [t \in 1..1 |-> Idle]
    /\ outcome = Idle

\* two channels, and the contest that user 1 has created and started on
\* the first of them
InitCross ==
    /\ users = [u \in 1..NumUsers |-> [username |-> u % 2 = 0]]
    /\ channels = [ch \in 1..CrossChans |-> [registered_by |-> 2 - (ch % 2)]]
    /\ contests = [id \in 1..MaxContests |->
                     [name |-> "a", prize |-> "p", end |-> MaxTime, chan |-> 1,
                      started_at |-> 0, stopped |-> FALSE, exists |-> TRUE]]
    /\ nextContest = MaxContests + 1
    /\ invitations = {}
    /\ managed = <<1>>
    /\ contacted = <<>>
    /\ now = 0
    /\ tasks = [t \in 1..1 |-> Idle]
    /\ outcome = Idle

\* the completion of the latest step has been seen
Reap ==
    /\ outcome # Idle
    /\ outcome' = Idle
    /\ UNCHANGED <<users, channels, contests, nextContest, invitations, managed, contacted,
                   now, tasks>>

\* time passes
Tick ==
    /\ Ready
    /\ now < MaxTime
    /\ now' = now + 1
    /\ outcome' = Idle
    /\ UNCHANGED <<users, channels, contests, nextContest, invitations, managed, contacted, tasks>>

(***************************************************************************)
(* callback, accept branch (handlers.rs:184-359).                          *)
(***************************************************************************)
InFlight(kind) == Cardinality({t \in TaskIds : tasks[t].pc # "idle" /\ tasks[t].ev.kind = kind})

\* the first membership check, and what follows it up to the sleep
AcceptBegin(t, data) ==
    /\ Ready
    /\ FreeSlot(t)
    /\ data \in AcceptData
    /\ Cardinality(invitations) + InFlight("accept") < MaxInvites
    /\ LET rec == Begin(EventOf(data, data.args[2]))
       IN  \E m \in LookupResults :
             LET seen == [rec EXCEPT !.checks = 1, !.lookup = m]
             IN  IF m = "error"
                 THEN /\ outcome' = Done(Say(seen, {"LookupError"}, 1))
                      /\ UNCHANGED tasks
                 ELSE IF member_joined(m)
                 THEN /\ outcome' = Done(Say(seen, {"AlreadyMember"}, 1))
                      /\ UNCHANGED tasks
                 ELSE /\ tasks' = [tasks EXCEPT ![t] =
                                     [Say(seen, {"PleaseJoin"}, 1) EXCEPT !.pc = "a_wait"]]
                      /\ outcome' = Idle
    /\ StoreUnchanged
    /\ UNCHANGED now

\* a handler that asks again and sleeps again until the user has joined
AcceptRecheckUntilJoined(t) ==
    /\ Ready
    /\ tasks[t].pc = "a_wait"
    /\ \E m \in LookupResults :
         LET seen == [tasks[t] EXCEPT !.checks = @ + 1, !.lookup = m]
         IN  IF m = "error"
             THEN /\ outcome' = Crashed(seen)
                  /\ tasks' = [tasks EXCEPT ![t] = Idle]
             ELSE IF member_joined(m)
             THEN /\ tasks' = [tasks EXCEPT ![t] = [seen EXCEPT !.pc = "a_get"]]
                  /\ outcome' = Idle
             ELSE /\ outcome' = Done(Say(seen, {"PleaseJoin"}, 0))
                  /\ UNCHANGED tasks
    /\ StoreUnchanged
    /\ UNCHANGED now

\* after sleep(10 s): the second membership check, unwrapped
AcceptRecheck(t) ==
    /\ Ready
    /\ tasks[t].pc = "a_wait"
    /\ \E m \in LookupResults :
         LET seen == [tasks[t] EXCEPT !.checks = @ + 1, !.lookup = m]
         IN  IF m = "error"
             THEN /\ outcome' = Crashed(seen)
                  /\ tasks' = [tasks EXCEPT ![t] = Idle]
             ELSE IF member_joined(m)
             THEN /\ tasks' = [tasks EXCEPT ![t] = [seen EXCEPT !.pc = "a_get"]]
                  /\ outcome' = Idle
             ELSE /\ outcome' = Done(Say(seen, {"Timeout"}, 0))
                  /\ tasks' = [tasks EXCEPT ![t] = Idle]
    /\ StoreUnchanged
    /\ UNCHANGED now

\* contests::get and the comparison of now with the contest's end
AcceptGet(t) ==
    /\ Ready
    /\ tasks[t].pc = "a_get"
    /\ LET c == tasks[t].ev.contest
       IN  IF contests_get_panics(c)
           THEN /\ outcome' = Crashed(tasks[t])
                /\ tasks' = [tasks EXCEPT ![t] = Idle]
           ELSE IF finished(c, now)
           THEN /\ outcome' = Done(Say(tasks[t], {"Finished"}, 0))
                /\ tasks' = [tasks EXCEPT ![t] = Idle]
           ELSE /\ tasks' = [tasks EXCEPT ![t].pc = "a_insert"]
                /\ outcome' = Idle
    /\ StoreUnchanged
    /\ UNCHANGED now

\* INSERT INTO invitations(source, dest, chan, contest)
AcceptInsert(t) ==
    /\ Ready
    /\ tasks[t].pc = "a_insert"
    /\ LET ev == tasks[t].ev
       IN  IF InvitationInsertOk(ev.source, ev.dest, ev.chan, ev.contest)
           THEN /\ invitations' = invitations \cup
                     {[source |-> ev.source, dest |-> ev.dest,
                       chan |-> ev.chan, contest |-> ev.contest]}
                /\ outcome' = Done(Say(tasks[t], {"Joined"}, 0))
           ELSE /\ UNCHANGED invitations
                /\ outcome' = Done(Say(tasks[t], {"MightExist"}, 0))
    /\ tasks' = [tasks EXCEPT ![t] = Idle]
    /\ UNCHANGED <<users, channels, contests, nextContest, managed, contacted, now>>


(***************************************************************************)
(* callback, stop_contest branch (handlers.rs:470-631) and                 *)
(* contests::validate_users.                                               *)
(***************************************************************************)
RECURSIVE DestsInOrder(_)
\* SELECT dest FROM invitations WHERE contest = ?: one entry per row.  The
\* rows are looked up one by one and independently, so the order of the
\* result is not observable; the model fixes one.
DestsInOrder(rows) ==
    IF rows = {} THEN <<>>
    ELSE LET key(r) == 100 * r.dest + 10 * r.source + r.chan
             first == CHOOSE r \in rows : \A q \in rows : key(r) <= key(q)
         IN  <<first.dest>> \o DestsInOrder(rows \ {first})

\* contests::get, the test of c.stopped, and the SELECT of validate_users
StopBegin(t, data) ==
    /\ Ready
    /\ FreeSlot(t)
    /\ data \in ContestData
    /\ Dispatch(data.name) = "stop_contest"
    /\ ButtonConsistent(data)
    /\ LET rec == Begin(EventOf(data, RegisteredBy(data.args[1])))
           c == data.args[2]
       IN  IF contests_get_panics(c)
           THEN /\ outcome' = Crashed(rec)
                /\ UNCHANGED tasks
           ELSE IF c_stopped(c)
           THEN /\ outcome' = Done(Say(rec, {"AlreadyStopped", "ManageMenu"}, 1))
                /\ UNCHANGED tasks
           ELSE LET dests == DestsInOrder({i \in invitations : i.contest = c})
                IN  /\ tasks' = [tasks EXCEPT ![t] =
                          [rec EXCEPT !.todo = dests,
                                      !.pc = IF dests = <<>> THEN "s_update" ELSE "s_validate"]]
                    /\ outcome' = Idle
    /\ StoreUnchanged
    /\ UNCHANGED now

\* DELETE FROM invitations WHERE dest = ?: every row of the user
PrunedInEveryContest(inv, user, c, m) ==
    IF in_channel(m) THEN {} ELSE {i \in inv : i.dest = user}

\* the rows validate_users deletes for a user whose lookup gave m
\* (DELETE FROM invitations WHERE dest = ? and contest = ?)
Pruned(inv, user, c, m) ==
    IF in_channel(m) THEN {} ELSE {i \in inv : i.dest = user /\ i.contest = c}

\* one turn of the loop of validate_users: get_chat_member, then the DELETE
StopValidate(t) ==
    /\ Ready
    /\ tasks[t].pc = "s_validate"
    /\ LET user == Head(tasks[t].todo)
           rest == Tail(tasks[t].todo)
       IN  \E m \in LookupResults :
             /\ invitations' = invitations \ Pruned(invitations, user, tasks[t].ev.contest, m)
             /\ tasks' = [tasks EXCEPT ![t] =
                   [tasks[t] EXCEPT
                      !.todo = rest,
                      !.lookup = m,
                      !.pc = IF rest = <<>> THEN "s_update" ELSE "s_validate"]]
    /\ outcome' = Idle
    /\ UNCHANGED <<users, channels, contests, nextContest, managed, contacted, now>>

\* a handler that marks the contest stopped only when somebody is left to rank
StopUpdateWhenRanked(t) ==
    /\ Ready
    /\ tasks[t].pc = "s_update"
    /\ LET c == tasks[t].ev.contest
       IN  IF ~contests[c].exists
           THEN /\ outcome' = Crashed(tasks[t])
                /\ tasks' = [tasks EXCEPT ![t] = Idle]
                /\ UNCHANGED contests
           ELSE /\ contests' = IF \E i \in invitations : i.contest = c
                               THEN [contests EXCEPT ![c].stopped = TRUE]
                               ELSE contests
                /\ tasks' = [tasks EXCEPT ![t].pc = "s_rank", ![t].lookup = ""]
                /\ outcome' = Idle
    /\ UNCHANGED <<users, channels, nextContest, invitations, managed, contacted, now>>

\* UPDATE contests SET stopped = TRUE WHERE id = ? RETURNING ..., first row unwrapped
StopUpdate(t) ==
    /\ Ready
    /\ tasks[t].pc = "s_update"
    /\ LET c == tasks[t].ev.contest
       IN  IF ~contests[c].exists
           THEN /\ outcome' = Crashed(tasks[t])
                /\ tasks' = [tasks EXCEPT ![t] = Idle]
                /\ UNCHANGED contests
           ELSE /\ contests' = [contests EXCEPT ![c].stopped = TRUE]
                /\ tasks' = [tasks EXCEPT ![t].pc = "s_rank", ![t].lookup = ""]
                /\ outcome' = Idle
    /\ UNCHANGED <<users, channels, nextContest, invitations, managed, contacted, now>>

\* the row stop_contest inserts into being_contacted_users:
\* INSERT INTO being_contacted_users(user, owner) VALUES(?, ?)
ContactRow(winner, owner, contest) ==
    [user |-> winner, owner |-> owner, contest |-> Null, contacted |-> FALSE]

\* the table after the INSERT; a failed INSERT is logged and leaves it as it was
ContactedInsert(rows, row) ==
    IF ContactedInsertOk(row.user, row.owner, row.contest)
    THEN Append(rows, row) ELSE rows

\* the last row of the ranking
WinnerOfLast(rank) == rank[Len(rank)].user

\* the winner the handler picks from the ranking: rank[0].user
WinnerOf(rank) == rank[1].user

\* contests::ranking, the leaderboard, the messages to the owner and the
\* pending contact
StopRank(t) ==
    /\ Ready
    /\ tasks[t].pc = "s_rank"
    /\ LET rec == tasks[t]
           rank == ranking(invitations, rec.ev.contest)
       IN  IF Len(rank) = 0
           THEN /\ outcome' = Done(Say(rec, {"NoOne", "ManageMenu"}, 1))
                /\ UNCHANGED contacted
           ELSE \E sendOk \in BOOLEAN, pinOk \in BOOLEAN :
                  LET winner == WinnerOf(rank)
                      board == IF ~sendOk THEN {"LeaderboardFailed"}
                               ELSE IF pinOk THEN {"Leaderboard"}
                               ELSE {"Leaderboard", "PinError"}
                      direct == HasUsername(winner)
                      text == IF direct THEN {"ContactWinner"} ELSE {"WriteToWinner"}
                  IN  /\ (~sendOk => pinOk)
                      /\ outcome' = Done([Say(rec, board \cup text, 1) EXCEPT !.winner = winner])
                      /\ contacted' =
                           IF direct THEN contacted
                           ELSE ContactedInsert(contacted,
                                    ContactRow(winner, rec.ev.sender, rec.ev.contest))
    /\ tasks' = [tasks EXCEPT ![t] = Idle]
    /\ UNCHANGED <<users, channels, contests, nextContest, invitations, managed, now>>

(***************************************************************************)
(* callback, start_contest branch (handlers.rs:833-968).                   *)
(***************************************************************************)
\* contests::get and the test of c.started_at
StartBegin(t, data) ==
    /\ Ready
    /\ FreeSlot(t)
    /\ data \in ContestData
    /\ Dispatch(data.name) = "start_contest"
    /\ ButtonConsistent(data)
    /\ LET rec == Begin(EventOf(data, RegisteredBy(data.args[1])))
           c == data.args[2]
       IN  IF contests_get_panics(c)
           THEN /\ outcome' = Crashed(rec)
                /\ UNCHANGED tasks
           ELSE IF started_at_is_some(c)
           THEN /\ outcome' = Done(Say(rec, {"AlreadyStarted", "ManageMenu"}, 1))
                /\ UNCHANGED tasks
           ELSE /\ tasks' = [tasks EXCEPT ![t] = [rec EXCEPT !.pc = "st_update"]]
                /\ outcome' = Idle
    /\ StoreUnchanged
    /\ UNCHANGED now

\* a handler that announces first and records the start only when the
\* announcement was sent and pinned
StartUpdateIfAnnounced(t) ==
    /\ Ready
    /\ tasks[t].pc = "st_update"
    /\ LET rec == tasks[t]
           c == rec.ev.contest
       IN  IF ~contests[c].exists
           THEN /\ outcome' = Crashed(rec)
                /\ UNCHANGED contests
           ELSE \E sendOk \in BOOLEAN, pinOk \in BOOLEAN :
                  LET board == IF ~sendOk THEN {"AnnouncementFailed"}
                               ELSE IF pinOk THEN {"Announcement"}
                               ELSE {"Announcement", "PinError"}
                  IN  /\ (~sendOk => pinOk)
                      /\ contests' = IF sendOk /\ pinOk
                                     THEN [contests EXCEPT ![c].started_at = now]
                                     ELSE contests
                      /\ outcome' = Done(Say(rec, {"ContestStarted", "ManageMenu"} \cup board, 1))
    /\ tasks' = [tasks EXCEPT ![t] = Idle]
    /\ UNCHANGED <<users, channels, nextContest, invitations, managed, contacted, now>>

\* UPDATE contests SET started_at = now WHERE id = ? RETURNING ..., first row
\* unwrapped; then the announcement in the channel and its pin
StartUpdate(t) ==
    /\ Ready
    /\ tasks[t].pc = "st_update"
    /\ LET rec == tasks[t]
           c == rec.ev.contest
       IN  IF ~contests[c].exists
           THEN /\ outcome' = Crashed(rec)
                /\ UNCHANGED contests
           ELSE \E sendOk \in BOOLEAN, pinOk \in BOOLEAN :
                  LET board == IF ~sendOk THEN {"AnnouncementFailed"}
                               ELSE IF pinOk THEN {"Announcement"}
                               ELSE {"Announcement", "PinError"}
                  IN  /\ (~sendOk => pinOk)
                      /\ contests' = [contests EXCEPT ![c].started_at = now]
                      /\ outcome' = Done(Say(rec, {"ContestStarted", "ManageMenu"} \cup board, 1))
    /\ tasks' = [tasks EXCEPT ![t] = Idle]
    /\ UNCHANGED <<users, channels, nextContest, invitations, managed, contacted, now>>

(***************************************************************************)
(* callback, delete_contest branch (handlers.rs:804-831).                  *)
(***************************************************************************)
\* DELETE FROM contests WHERE id = ?; a statement that matches no row succeeds
DeleteContest(data) ==
    /\ Ready
    /\ data \in ContestData
    /\ Dispatch(data.name) = "delete_contest"
    /\ ButtonConsistent(data)
    /\ LET rec == Begin(EventOf(data, RegisteredBy(data.args[1])))
           c == data.args[2]
       IN  IF ContestDeleteOk(c)
           THEN /\ contests' = [contests EXCEPT ![c] = NoContest]
                /\ outcome' = Done([Say(rec, {"Done", "ManageMenu"}, 1)
                                   EXCEPT !.row = contests[c]])
           ELSE /\ UNCHANGED contests
                /\ outcome' = Done(Say(rec, {"DeleteError", "ManageMenu"}, 1))
    /\ UNCHANGED <<users, channels, nextContest, invitations, managed, contacted, now, tasks>>


(***************************************************************************)
(* callback, the branches that show a menu or a selector, and the          *)
(* branches that only acknowledge (handlers.rs:59-75, 129-152, 361-468,    *)
(* 633-802).                                                               *)
(***************************************************************************)
\* contests::get_all: the contests of a channel
get_all(chan) == {id \in ContestIds : contests[id].exists /\ contests[id].chan = chan}

MenuEvent(data, kind) ==
    /\ data \in MenuData
    /\ Dispatch(data.name) = kind

NothingElseChanges ==
    UNCHANGED <<users, channels, contests, nextContest, invitations, managed, contacted,
                now, tasks>>

Reject(sender) ==
    /\ Ready
    /\ outcome' = Done(Say(Begin(EventOf([name |-> "cross", args |-> <<>>], sender)), {}, 1))
    /\ NothingElseChanges

Unknown(sender) ==
    /\ Ready
    /\ outcome' = Done(Say(Begin(EventOf([name |-> "bogus", args |-> <<>>], sender)), {}, 1))
    /\ NothingElseChanges

\* a known name with a missing argument: the unwrap of iter.next() panics
Malformed(name) ==
    /\ Ready
    /\ name \in {"manage", "start_contest", "tick"}
    /\ ParsePanics([name |-> name, args |-> <<>>])
    /\ outcome' = Crashed(Begin([NoEvent EXCEPT !.kind = Dispatch(name)]))
    /\ NothingElseChanges

Main(data) ==
    /\ Ready
    /\ MenuEvent(data, "main")
    /\ outcome' = Done(Say(Begin(EventOf(data, RegisteredBy(data.args[1]))), {"MainMenu"}, 0))
    /\ NothingElseChanges

\* a manage that records the channel as being managed, as create does
ManageMarksTheChannel(data) ==
    /\ Ready
    /\ MenuEvent(data, "manage")
    /\ managed' = Append(managed, data.args[1])
    /\ outcome' = Done(Say(Begin(EventOf(data, RegisteredBy(data.args[1]))), {"ManageMenu"}, 1))
    /\ UNCHANGED <<users, channels, contests, nextContest, invitations, contacted, now, tasks>>

Manage(data) ==
    /\ Ready
    /\ MenuEvent(data, "manage")
    /\ outcome' = Done(Say(Begin(EventOf(data, RegisteredBy(data.args[1]))), {"ManageMenu"}, 1))
    /\ NothingElseChanges

\* a selector over the contests `shown`, or the alert when there is none
Selector(data, kind, shown, alert) ==
    /\ Ready
    /\ MenuEvent(data, kind)
    /\ outcome' = Done(Say(Begin(EventOf(data, RegisteredBy(data.args[1]))),
                        IF shown = {} THEN {alert} ELSE {"Selector"}, 1))
    /\ NothingElseChanges

Start(data) ==
    Selector(data, "start",
             {id \in get_all(data.args[1]) : contests[id].started_at = Null},
             "NothingToStart")

Stop(data) ==
    Selector(data, "stop",
             {id \in get_all(data.args[1]) :
                 contests[id].started_at # Null /\ ~contests[id].stopped},
             "NothingToStop")

Delete(data) ==
    Selector(data, "delete", get_all(data.args[1]), "NothingToDelete")

List(data) ==
    /\ Ready
    /\ MenuEvent(data, "list")
    /\ outcome' = Done(Say(Begin(EventOf(data, RegisteredBy(data.args[1]))),
                        IF get_all(data.args[1]) = {} THEN {"NoContests"}
                        ELSE {"Table", "ManageMenu"}, 1))
    /\ NothingElseChanges

\* the instructions, then INSERT INTO being_managed_channels(chan)
Create(data) ==
    /\ Ready
    /\ MenuEvent(data, "create")
    \* one press per contest the model holds, and one more per further channel
    /\ Len(managed) < Cardinality(ContestIds) + Cardinality(Chans) - 1
    /\ managed' = Append(managed, data.args[1])
    /\ outcome' = Done(Say(Begin(EventOf(data, RegisteredBy(data.args[1]))), {"Instructions"}, 1))
    /\ UNCHANGED <<users, channels, contests, nextContest, invitations, contacted, now, tasks>>

(***************************************************************************)
(* message: free text (handlers.rs:1056-1238) and contests::from_text.     *)
(* A text is its rows (split on '\n'); a row is its characters and, when   *)
(* it reads as a date in the format from_text parses, the instant.         *)
(***************************************************************************)
Names == {"a", "b"}

TextRow(txt) == [txt |-> txt, date |-> Null]

DateRow(t) == [txt |-> "date", date |-> t]

Texts ==
    {<<TextRow(n), DateRow(t), TextRow("p")>> : n \in Names, t \in Times}
    \cup {<<TextRow("a"), TextRow("soon"), TextRow("p")>>,
          <<TextRow("a"), TextRow("p")>>,
          <<TextRow(""), TextRow("a"), DateRow(MaxTime), TextRow("p")>>,
          <<TextRow("b"), DateRow(MaxTime), TextRow("")>>,
          <<TextRow("hello")>>}

RECURSIVE SkipWhileEmpty(_)
\* text.split('\n').skip_while(|r| r.is_empty())
SkipWhileEmpty(rows) ==
    IF rows # <<>> /\ Head(rows).txt = "" THEN SkipWhileEmpty(Tail(rows)) ELSE rows

\* contests::from_text at the instant `at`
from_text(text, chan, at) ==
    LET rows == SkipWhileEmpty(text)
    IN  IF Len(rows) # 3 THEN [ok |-> FALSE, err |-> "rows", c |-> NoContest]
        ELSE IF rows[2].date = Null THEN [ok |-> FALSE, err |-> "parse", c |-> NoContest]
        ELSE IF rows[2].date < at THEN [ok |-> FALSE, err |-> "past", c |-> NoContest]
        ELSE [ok |-> TRUE, err |-> "",
              c |-> [name |-> rows[1].txt, prize |-> rows[3].txt, end |-> rows[2].date,
                     chan |-> chan, started_at |-> Null, stopped |-> FALSE,
                     exists |-> TRUE]]

\* the query without its WHERE: the latest row of anyone
LatestManagedOfAnyone(sender) ==
    IF managed = <<>> THEN Null ELSE managed[Len(managed)]

\* ... WHERE being_managed_channels.chan IN (channels of the sender)
\*     ORDER BY being_managed_channels.id DESC LIMIT 1
LatestManaged(sender) ==
    LET mine == {k \in 1..Len(managed) : managed[k] \in channels_get(sender)}
    IN  IF mine = {} THEN Null
        ELSE managed[CHOOSE k \in mine : \A j \in mine : j <= k]

\* ... WHERE being_contacted_users.owner = ? AND contacted IS FALSE
\*     ORDER BY being_contacted_users.id DESC LIMIT 1
LatestUncontacted(sender) ==
    LET mine == {k \in 1..Len(contacted) :
                    contacted[k].owner = sender /\ ~contacted[k].contacted}
    IN  IF mine = {} THEN Null
        ELSE contacted[CHOOSE k \in mine : \A j \in mine : j <= k].user

\* UPDATE being_contacted_users SET contacted = TRUE WHERE owner = ? AND user = ?
MarkContacted(rows, owner, user) ==
    [k \in 1..Len(rows) |->
        IF rows[k].owner = owner /\ rows[k].user = user
        THEN [rows[k] EXCEPT !.contacted = TRUE] ELSE rows[k]]

MessageEvent(sender) == [NoEvent EXCEPT !.kind = "message", !.sender = sender]

Message(sender, text) ==
    LET rec == Begin(MessageEvent(sender))
        chan == LatestManaged(sender)
        parsed == from_text(text, chan, now)
        winner == LatestUncontacted(sender)
    IN  /\ Ready
        /\ text \in Texts
        /\ IF sender \notin owners
           THEN /\ outcome' = Done(rec)
                /\ UNCHANGED <<contests, nextContest, contacted>>
           ELSE IF Len(SkipWhileEmpty(text)) = 3
           THEN IF chan = Null
                THEN /\ outcome' = Done(rec)
                     /\ UNCHANGED <<contests, nextContest, contacted>>
                ELSE IF ~parsed.ok
                THEN /\ outcome' = Done(Say(rec, {"ParseError", "ManageMenu"}, 0))
                     /\ UNCHANGED <<contests, nextContest, contacted>>
                ELSE IF ~ContestInsertOk(parsed.c.name, parsed.c.chan)
                THEN /\ outcome' = Done(Say(rec, {"InsertError", "ManageMenu"}, 0))
                     /\ UNCHANGED <<contests, nextContest, contacted>>
                ELSE /\ nextContest \in ContestIds
                     /\ contests' = [contests EXCEPT ![nextContest] = parsed.c]
                     /\ nextContest' = nextContest + 1
                     /\ outcome' = Done([Say(rec, {"Created", "ManageMenu"}, 0)
                                        EXCEPT !.ev.chan = chan, !.ev.contest = nextContest])
                     /\ UNCHANGED contacted
           ELSE IF winner = Null
           THEN /\ outcome' = Done(rec)
                /\ UNCHANGED <<contests, nextContest, contacted>>
           ELSE \E sendOk \in BOOLEAN :
                  IF sendOk
                  THEN /\ contacted' = MarkContacted(contacted, sender, winner)
                       /\ outcome' = Done([Say(rec, {"Relayed", "Delivered", "MainMenu"}, 0)
                                          EXCEPT !.winner = winner])
                       /\ UNCHANGED <<contests, nextContest>>
                  ELSE /\ outcome' = Done(Say(rec, {"MainMenu"}, 0))
                       /\ UNCHANGED <<contests, nextContest, contacted>>
        /\ UNCHANGED <<users, channels, invitations, managed, now, tasks>>

(***************************************************************************)
(* The /rank command (commands.rs:45-105).                                 *)
(***************************************************************************)
\* the rows of the inner query that pass WHERE t.source = ?: one per contest
\* in which the user is the source of an invitation
OwnContests(inv, u) == {i.contest : i \in {j \in inv : j.source = u}}

\* the rows the query can return, as contest -> r.  The WHERE is applied
\* before the window, so ROW_NUMBER numbers the user's own rows only, by
\* ORDER BY t.c, t.source DESC; t.source is the same on all of them, so rows
\* with the same count are numbered in an order the query does not fix.
rank_per_user_contest(inv, u) ==
    LET own == OwnContests(inv, u)
    IN  {f \in [own -> 1..Cardinality(own)] :
            /\ \A c, d \in own : c # d => f[c] # f[d]
            /\ \A c, d \in own :
                  InviteCount(inv, c, u) < InviteCount(inv, d, u) => f[c] < f[d]}

RankEvent(sender) == [NoEvent EXCEPT !.kind = "rank", !.sender = sender]

\* one SELECT, then the reply and the main menu
RankCommand(sender) ==
    /\ Ready
    /\ \E f \in rank_per_user_contest(invitations, sender) :
         outcome' = Done([Say(Begin(RankEvent(sender)),
                              (IF DOMAIN f = {} THEN {"NotPartecipated"} ELSE {"Rankings"})
                                 \cup {"MainMenu"}, 0)
                          EXCEPT !.ranks = f])
    /\ StoreUnchanged
    /\ UNCHANGED <<now, tasks>>

(***************************************************************************)
(* The /start command with a parameter (commands.rs:220-419) and the token *)
(* of the deep links: the pairs key=value joined by '&', as bytes, in      *)
(* BASE64URL.  A string is the sequence of its characters, a token the     *)
(* sequence of the indexes of its symbols in the base64url alphabet, 64    *)
(* standing for the padding '='.                                           *)
(***************************************************************************)
Keys == {"chan", "contest", "source"}

KeyChars == [chan |-> <<"c", "h", "a", "n">>,
             contest |-> <<"c", "o", "n", "t", "e", "s", "t">>,
             source |-> <<"s", "o", "u", "r", "c", "e">>]

\* the ids a link can carry
TokenIds == {-MaxId, -1, 0, 1, 2, MaxId}

\* the parameters of a link: some of the keys, each with an id
TokenMaps == UNION {[K -> TokenIds] : K \in SUBSET Keys}

\* as_bytes of the characters the links are made of
Ascii ==
    ("0" :> 48) @@ ("1" :> 49) @@ ("2" :> 50) @@ ("3" :> 51) @@ ("4" :> 52) @@ ("5" :> 53) @@
    ("6" :> 54) @@ ("7" :> 55) @@ ("8" :> 56) @@ ("9" :> 57) @@ ("-" :> 45) @@ ("=" :> 61) @@
    ("&" :> 38) @@ ("a" :> 97) @@ ("c" :> 99) @@ ("e" :> 101) @@ ("h" :> 104) @@ ("n" :> 110) @@
    ("o" :> 111) @@ ("r" :> 114) @@ ("s" :> 115) @@ ("t" :> 116) @@ ("u" :> 117)

Chr(b) == CHOOSE ch \in DOMAIN Ascii : Ascii[ch] = b

DigitChars == <<"0", "1", "2", "3", "4", "5", "6", "7", "8", "9">>

RECURSIVE Decimal(_)
Decimal(n) ==
    IF n < 10 THEN <<DigitChars[n + 1]>>
    ELSE Decimal(n \div 10) \o <<DigitChars[(n % 10) + 1]>>

\* "{}" of an i64
Display(i) == IF i < 0 THEN <<"-">> \o Decimal(-i) ELSE Decimal(i)

RECURSIVE JoinPairs(_, _)
\* format!("chan={}&contest={}&source={}", ...), for the keys that are given
JoinPairs(m, keys) ==
    IF keys = <<>> THEN <<>>
    ELSE LET k == Head(keys)
             rest == JoinPairs(m, Tail(keys))
         IN  IF k \notin DOMAIN m THEN rest
             ELSE KeyChars[k] \o <<"=">> \o Display(m[k])
                    \o (IF rest = <<>> THEN <<>> ELSE <<"&">> \o rest)

format(m) == JoinPairs(m, <<"chan", "contest", "source">>)

as_bytes(str) == [k \in 1..Len(str) |-> Ascii[str[k]]]

RECURSIVE BASE64URL_encode(_)
\* three bytes to four symbols, the last group padded
BASE64URL_encode(bytes) ==
    IF bytes = <<>> THEN <<>>
    ELSE IF Len(bytes) = 1
    THEN <<bytes[1] \div 4, (bytes[1] % 4) * 16, 64, 64>>
    ELSE IF Len(bytes) = 2
    THEN <<bytes[1] \div 4, (bytes[1] % 4) * 16 + bytes[2] \div 16,
           (bytes[2] % 16) * 4, 64>>
    ELSE <<bytes[1] \div 4, (bytes[1] % 4) * 16 + bytes[2] \div 16,
           (bytes[2] % 16) * 4 + bytes[3] \div 64, bytes[3] % 64>>
           \o BASE64URL_encode(SubSeq(bytes, 4, Len(bytes)))

RECURSIVE BASE64URL_decode(_)
\* four symbols to three bytes; a length that is not a multiple of four, a
\* padding anywhere but at the end, or trailing bits that are not zero are
\* errors
BASE64URL_decode(token) ==
    IF token = <<>> THEN [ok |-> TRUE, bytes |-> <<>>]
    ELSE IF Len(token) < 4 \/ token[1] = 64 \/ token[2] = 64
    THEN [ok |-> FALSE, bytes |-> <<>>]
    ELSE LET b1 == token[1] * 4 + token[2] \div 16
             b2 == (token[2] % 16) * 16 + token[3] \div 4
             b3 == (token[3] % 4) * 64 + token[4]
             last == Len(token) = 4
         IN  IF token[3] = 64
             THEN [ok |-> last /\ token[4] = 64 /\ token[2] % 16 = 0, bytes |-> <<b1>>]
             ELSE IF token[4] = 64
             THEN [ok |-> last /\ token[3] % 4 = 0, bytes |-> <<b1, b2>>]
             ELSE LET rest == BASE64URL_decode(SubSeq(token, 5, Len(token)))
                  IN  [ok |-> rest.ok, bytes |-> <<b1, b2, b3>> \o rest.bytes]

from_bytes(bytes) == [k \in 1..Len(bytes) |-> Chr(bytes[k])]

RECURSIVE Before(_, _)
\* the characters before the first `sep`
Before(str, sep) ==
    IF str = <<>> \/ Head(str) = sep THEN <<>>
    ELSE <<Head(str)>> \o Before(Tail(str), sep)

\* the characters after the first `sep`
After(str, sep) == SubSeq(str, Len(Before(str, sep)) + 2, Len(str))

RECURSIVE form_urlencoded_parse(_)
\* the pairs (name, value) of the string, in order: split on '&', each piece
\* on its first '='.  (The characters of the links need no unescaping.)
form_urlencoded_parse(str) ==
    IF str = <<>> THEN <<>>
    ELSE LET piece == Before(str, "&")
             pair == [name |-> Before(piece, "="), value |-> After(piece, "=")]
             rest == form_urlencoded_parse(After(str, "&"))
         IN  IF piece = <<>> THEN rest ELSE <<pair>> \o rest

\* collect::<HashMap>: the last pair of a name wins; params.contains_key
contains_key(pairs, name) == \E k \in 1..Len(pairs) : pairs[k].name = name

params_get(pairs, name) ==
    pairs[CHOOSE k \in 1..Len(pairs) :
             /\ pairs[k].name = name
             /\ \A j \in 1..Len(pairs) : pairs[j].name = name => j <= k].value

DigitOf(ch) == CHOOSE d \in 0..9 : DigitChars[d + 1] = ch

RECURSIVE NumberOf(_)
NumberOf(digits) ==
    IF digits = <<>> THEN 0
    ELSE 10 * NumberOf(SubSeq(digits, 1, Len(digits) - 1)) + DigitOf(digits[Len(digits)])

IsDigits(str) ==
    /\ str # <<>>
    /\ \A k \in 1..Len(str) : \E d \in 1..10 : DigitChars[d] = str[k]

\* a parser that knows no sign
parse_i64_unsigned(str) == IF IsDigits(str) THEN NumberOf(str) ELSE -1

\* str::parse::<i64>().unwrap_or(-1): an optional '-', then digits
parse_i64(str) ==
    IF str # <<>> /\ Head(str) = "-"
    THEN IF IsDigits(Tail(str)) THEN -NumberOf(Tail(str)) ELSE -1
    ELSE IF IsDigits(str) THEN NumberOf(str) ELSE -1

\* the value of a key of the link, -1 when the key is not there
param(pairs, key) ==
    IF contains_key(pairs, KeyChars[key])
    THEN parse_i64(params_get(pairs, KeyChars[key])) ELSE -1

\* the token of the link made for the parameters m
TokenOf(m) == BASE64URL_encode(as_bytes(format(m)))

\* the links the bot makes, and a token cut short
Tokens == {TokenOf(m) : m \in TokenMaps} \cup {<<24>>}

StartCommand(sender, token) ==
    LET decoded == BASE64URL_decode(token)
        pairs == form_urlencoded_parse(from_bytes(decoded.bytes))
        source == param(pairs, "source")
        chan == param(pairs, "chan")
        contest_id == param(pairs, "contest")
        rec == Begin([NoEvent EXCEPT !.kind = "start", !.sender = sender,
                                     !.source = source, !.chan = chan,
                                     !.contest = contest_id])
        user == source \in Users
        channel == chan \in Chans
    IN  /\ Ready
        /\ token \in Tokens
        /\ IF ~decoded.ok
           THEN outcome' = Done(Begin([NoEvent EXCEPT !.kind = "start", !.sender = sender]))
           ELSE IF contest_id \notin ContestIds \/ contests_get_panics(contest_id)
           THEN outcome' = Crashed(rec)
           ELSE IF ~user /\ ~channel
           THEN outcome' = Done(Say(rec, {"SomethingWrong"}, 0))
           ELSE IF user /\ channel
           THEN outcome' = Done(Say(rec, {"Invited"}, 0))
           ELSE IF channel
           THEN outcome' = Done(Say(rec, {"InviteLink"}, 0))
           ELSE outcome' = Done(rec)
        /\ NothingElseChanges

\* the links at work: /start with a token, nothing else
NextLinks ==
    \/ Reap
    \/ \E u \in Users, token \in Tokens : StartCommand(u, token)

(***************************************************************************)
(* The bot: every event may arrive at any time, every task in flight may   *)
(* take its next step.                                                     *)
(***************************************************************************)
Next ==
    \/ Reap
    \/ Tick
    \/ \E t \in TaskIds, data \in AcceptData : AcceptBegin(t, data)
    \/ \E t \in TaskIds : AcceptRecheck(t)
    \/ \E t \in TaskIds : AcceptGet(t)
    \/ \E t \in TaskIds : AcceptInsert(t)
    \/ \E t \in TaskIds, data \in ContestData : StopBegin(t, data)
    \/ \E t \in TaskIds : StopValidate(t)
    \/ \E t \in TaskIds : StopUpdate(t)
    \/ \E t \in TaskIds : StopRank(t)
    \/ \E t \in TaskIds, data \in ContestData : StartBegin(t, data)
    \/ \E t \in TaskIds : StartUpdate(t)
    \/ \E data \in ContestData : DeleteContest(data)
    \/ \E u \in Users : RankCommand(u)
    \/ \E u \in Users : Reject(u)
    \/ \E u \in Users : Unknown(u)
    \/ \E n \in {"manage", "start_contest", "tick"} : Malformed(n)
    \/ \E data \in MenuData : Main(data)
    \/ \E data \in MenuData : Manage(data)
    \/ \E data \in MenuData : Start(data)
    \/ \E data \in MenuData : Stop(data)
    \/ \E data \in MenuData : Delete(data)
    \/ \E data \in MenuData : List(data)
    \/ \E data \in MenuData : Create(data)
    \/ \E u \in Users, text \in Texts : Message(u, text)

Spec == Init /\ [][Next]_vars

SpecWide == InitWide /\ [][Next]_vars

SpecTwo == InitTwo /\ [][Next]_vars

\* the owners at work in their private chats, while no participant presses
\* a button: the menus, the creation of contests, their start, stop and
\* deletion.  No contest has an invitation, so validate_users looks nobody up.
NextOwners ==
    \/ Reap
    \/ Tick
    \/ \E t \in TaskIds, data \in ContestData : StopBegin(t, data)
    \/ \E t \in TaskIds : StopUpdate(t)
    \/ \E t \in TaskIds : StopRank(t)
    \/ \E t \in TaskIds, data \in ContestData : StartBegin(t, data)
    \/ \E t \in TaskIds : StartUpdate(t)
    \/ \E data \in ContestData : DeleteContest(data)
    \/ \E data \in MenuData : Main(data)
    \/ \E data \in MenuData : Manage(data)
    \/ \E data \in MenuData : Start(data)
    \/ \E data \in MenuData : Stop(data)
    \/ \E data \in MenuData : Delete(data)
    \/ \E data \in MenuData : List(data)
    \/ \E data \in MenuData : Create(data)
    \/ \E u \in Users, text \in Texts : Message(u, text)

SpecChans == InitChans /\ [][NextOwners]_vars

SpecLinks == InitTwo /\ [][NextLinks]_vars

\* the participants at work: /start with a token, and the accept button of
\* the invitation it shows
NextCross ==
    \/ Reap
    \/ \E u \in Users, token \in Tokens : StartCommand(u, token)
    \/ \E t \in TaskIds, data \in AcceptData : AcceptBegin(t, data)
    \/ \E t \in TaskIds : AcceptRecheck(t)
    \/ \E t \in TaskIds : AcceptGet(t)
    \/ \E t \in TaskIds : AcceptInsert(t)

SpecCross == InitCross /\ [][NextCross]_vars

\* the participants accept, and the owner stops a contest
NextPrune ==
    \/ Reap
    \/ \E t \in TaskIds, data \in AcceptData : AcceptBegin(t, data)
    \/ \E t \in TaskIds : AcceptRecheck(t)
    \/ \E t \in TaskIds : AcceptGet(t)
    \/ \E t \in TaskIds : AcceptInsert(t)
    \/ \E t \in TaskIds, data \in ContestData : StopBegin(t, data)
    \/ \E t \in TaskIds : StopValidate(t)
    \/ \E t \in TaskIds : StopUpdate(t)
    \/ \E t \in TaskIds : StopRank(t)

SpecPrune == InitPrune /\ [][NextPrune]_vars

\* the events that meet an accept handler suspended in its sleep: the accept,
\* start_contest, stop_contest and delete_contest callbacks and the texts,
\* with the press of create that arms a text of three rows
NextWaiting ==
    \/ Reap
    \/ Tick
    \/ \E t \in TaskIds, data \in AcceptData : AcceptBegin(t, data)
    \/ \E t \in TaskIds : AcceptRecheck(t)
    \/ \E t \in TaskIds : AcceptGet(t)
    \/ \E t \in TaskIds : AcceptInsert(t)
    \/ \E t \in TaskIds, data \in ContestData : StopBegin(t, data)
    \/ \E t \in TaskIds : StopValidate(t)
    \/ \E t \in TaskIds : StopUpdate(t)
    \/ \E t \in TaskIds : StopRank(t)
    \/ \E t \in TaskIds, data \in ContestData : StartBegin(t, data)
    \/ \E t \in TaskIds : StartUpdate(t)
    \/ \E data \in ContestData : DeleteContest(data)
    \/ \E data \in MenuData : Create(data)
    \/ \E u \in Users, text \in Texts : Message(u, text)

\* the next step of an accept handler after its sleep, whichever it is
AcceptResume(t) == AcceptRecheck(t) \/ AcceptGet(t) \/ AcceptInsert(t)

\* the tokio runtime polls every task that is ready: the timer of sleep()
\* fires and the task is run again however many other events arrive in the
\* meantime, and each of its later awaits (an API call, no lock) returns
Scheduling == WF_vars(Reap) /\ \A t \in 1..MaxTasks : SF_vars(AcceptResume(t))

SpecWaiting == Init /\ [][NextWaiting]_vars /\ Scheduling

(***************************************************************************)
(* Properties.                                                             *)
(***************************************************************************)

\* C1: over any interleaving of events, the started_at of a contest, once
\* set, is never changed or cleared, and its stopped flag, once true, never
\* becomes false again.
C1_Irreversible ==
    [][\A c \in ContestIds :
         (contests[c].exists /\ contests'[c].exists) =>
            /\ contests[c].started_at # Null =>
                  contests'[c].started_at = contests[c].started_at
            /\ contests[c].stopped => contests'[c].stopped]_vars

\* C2: every invitation row is inserted while its contest is started and not
\* stopped; the invitations of a stopped contest never grow.
C2_InsertedWhileRunning ==
    [][\A r \in invitations' \ invitations :
         /\ contests[r.contest].started_at # Null
         /\ ~contests[r.contest].stopped]_vars

\* C3: no two invitation rows share (source, dest, chan), whatever their
\* contests; an accept whose triple is already there leaves the invitations
\* as they are, reports that the invitation might already exist and returns.
C3_OneRowPerTriple ==
    [][/\ \A i, j \in invitations' :
            (i.source = j.source /\ i.dest = j.dest /\ i.chan = j.chan) => i = j
       /\ \A t \in TaskIds :
            ( /\ tasks[t].pc = "a_insert"
              /\ tasks'[t] # tasks[t]
              /\ \E i \in invitations :
                    /\ i.source = tasks[t].ev.source
                    /\ i.dest = tasks[t].ev.dest
                    /\ i.chan = tasks[t].ev.chan )
            => /\ invitations' = invitations
               /\ outcome'.pc = "done"
               /\ "MightExist" \in outcome'.sent]_vars

\* an accept for a second contest was refused because of the row of the first
C3_DuplicateRefused ==
    /\ outcome.pc = "done"
    /\ outcome.ev.kind = "accept"
    /\ "MightExist" \in outcome.sent
    /\ \E i \in invitations :
          /\ i.source = outcome.ev.source
          /\ i.dest = outcome.ev.dest
          /\ i.chan = outcome.ev.chan
          /\ i.contest # outcome.ev.contest

\* C4: the ranking of a (started) contest is ordered by invitation count,
\* descending: a user with more invitations has a smaller rank.
C4_MoreInvitesRankFirst ==
    \A c \in ContestIds :
        (contests[c].exists /\ contests[c].started_at # Null) =>
            LET rank == ranking(invitations, c)
            IN  \A i, j \in DOMAIN rank :
                    rank[i].invites > rank[j].invites => rank[i].rank < rank[j].rank

\* C5: a turn of the pruning of stop_contest (on a started contest) deletes
\* exactly the invitations of the contest whose dest is no longer a member
\* (left, kicked, or a failed lookup) and keeps those of members.
C5_PrunesThoseWhoLeft ==
    [][\A t \in TaskIds :
         ( /\ tasks[t].pc = "s_validate"
           /\ tasks'[t] # tasks[t]
           /\ contests[tasks[t].ev.contest].started_at # Null ) =>
            invitations' = invitations \
                {i \in invitations :
                    /\ i.dest = Head(tasks[t].todo)
                    /\ i.contest = tasks[t].ev.contest
                    /\ tasks'[t].lookup \in {"left", "kicked", "error"}}]_vars

\* C6: when the check after the wait says that the user is not a member, no
\* invitation is created, the user gets the timeout message, and the handler
\* ends there, after exactly two membership checks.
C6_TimeoutEndsTheFlow ==
    [][\A t \in TaskIds :
         ( /\ tasks[t].pc = "a_wait"
           /\ tasks'[t] # tasks[t]
           /\ (IF tasks'[t].pc = "idle" THEN outcome'.lookup ELSE tasks'[t].lookup)
                 \in {"left", "kicked"} )
         => /\ invitations' = invitations
            /\ tasks'[t] = Idle
            /\ outcome'.pc = "done"
            /\ "Timeout" \in outcome'.sent
            /\ outcome'.checks = 2]_vars

\* an accept ended with the timeout message after its second check
C6_TimedOut ==
    /\ outcome.pc = "done"
    /\ outcome.ev.kind = "accept"
    /\ outcome.lookup \in {"left", "kicked"}
    /\ outcome.sent = {"PleaseJoin", "Timeout"}
    /\ outcome.checks = 2

\* C7: when the lookup after the wait fails, the handler treats the user as
\* not a member: it inserts nothing, tells the user, and returns.
C7_LookupErrorIsNotMember ==
    [][\A t \in TaskIds :
         ( /\ tasks[t].pc = "a_wait"
           /\ tasks'[t] # tasks[t]
           /\ (IF tasks'[t].pc = "idle" THEN outcome'.lookup ELSE tasks'[t].lookup)
                 = "error" )
         => /\ invitations' = invitations
            /\ outcome'.pc = "done"
            /\ outcome'.sent # tasks[t].sent]_vars

\* C8: when stop_contest (on a started contest) finds a ranking that is not
\* empty, a pending contact (user = the winner, owner = the acting user,
\* contacted = FALSE) exists afterwards if the winner has no username, and
\* none is added if the winner has one.
C8_PendingContactForSilentWinner ==
    [][\A t \in TaskIds :
         ( /\ tasks[t].pc = "s_rank"
           /\ tasks'[t] # tasks[t]
           /\ contests[tasks[t].ev.contest].started_at # Null
           /\ Len(ranking(invitations, tasks[t].ev.contest)) > 0 )
         => LET winner == WinnerOf(ranking(invitations, tasks[t].ev.contest))
            IN  IF HasUsername(winner)
                THEN contacted' = contacted
                ELSE \E k \in DOMAIN contacted' :
                        /\ contacted'[k].user = winner
                        /\ contacted'[k].owner = tasks[t].ev.sender
                        /\ ~contacted'[k].contacted]_vars

\* C9: delete_contest removes only drafts: on a started or a stopped contest
\* it fails with an error and the contest is still there.
C9_OnlyDraftsAreDeleted ==
    [][outcome'.ev.kind = "delete_contest" =>
         LET c == outcome'.ev.contest
         IN  (contests[c].exists /\ (contests[c].started_at # Null \/ contests[c].stopped))
             => /\ contests'[c] = contests[c]
                /\ "DeleteError" \in outcome'.sent]_vars

\* C9, as the code has it: delete_contest removes the contest, be it a draft,
\* started or stopped, exactly when no invitation references it; when one
\* does, the contest stays.
C9_UnreferencedAreDeleted ==
    [][outcome'.ev.kind = "delete_contest" =>
         LET c == outcome'.ev.contest
         IN  /\ outcome'.pc = "done"
             /\ IF \E i \in invitations : i.contest = c
                THEN contests'[c] = contests[c]
                ELSE ~contests'[c].exists /\ "Done" \in outcome'.sent]_vars

\* a started contest was deleted
C9_StartedDeleted ==
    /\ outcome.ev.kind = "delete_contest"
    /\ "Done" \in outcome.sent
    /\ outcome.row.exists
    /\ outcome.row.started_at # Null
    /\ ~contests[outcome.ev.contest].exists

\* C10: delete_contest on a contest with at least one invitation fails: the
\* contest and its invitations are still there and the user gets an error
\* instead of "Done!".
C10_ReferencedContestStays ==
    [][outcome'.ev.kind = "delete_contest" =>
         LET c == outcome'.ev.contest
         IN  (\E i \in invitations : i.contest = c)
             => /\ contests' = contests
                /\ invitations' = invitations
                /\ outcome'.pc = "done"
                /\ "DeleteError" \in outcome'.sent
                /\ "Done" \notin outcome'.sent]_vars

\* a delete_contest was refused for a contest that has an invitation
C10_DeleteRefused ==
    /\ outcome.ev.kind = "delete_contest"
    /\ "DeleteError" \in outcome.sent
    /\ contests[outcome.ev.contest].exists
    /\ \E i \in invitations : i.contest = outcome.ev.contest

\* C11: start_contest on a contest whose started_at is set says that an
\* already started contest can't be started, leaves started_at as it is and
\* publishes no announcement: the handler ends at its test, without the UPDATE.
C11_StartedStaysStarted ==
    [][/\ \A t \in TaskIds :
            (tasks[t].pc = "idle" /\ tasks'[t].pc = "st_update")
            => contests[tasks'[t].ev.contest].started_at = Null
       /\ ( /\ outcome'.ev.kind = "start_contest"
            /\ tasks' = tasks
            /\ outcome'.ev.contest \in ContestIds
            /\ contests[outcome'.ev.contest].exists
            /\ contests[outcome'.ev.contest].started_at # Null )
          => /\ outcome'.pc = "done"
             /\ outcome'.sent = {"AlreadyStarted", "ManageMenu"}
             /\ contests' = contests]_vars

\* a start_contest was refused for a started contest
C11_StartRefused ==
    /\ outcome.pc = "done"
    /\ outcome.ev.kind = "start_contest"
    /\ "AlreadyStarted" \in outcome.sent
    /\ contests[outcome.ev.contest].started_at # Null

\* C12: stop_contest on a contest that is already stopped changes nothing in
\* the store (no invitation pruned, no pending contact), publishes no ranking
\* and tells the user that the contest is already stopped.
C12_StoppedStaysAsItIs ==
    [][/\ \A t \in TaskIds :
            (tasks[t].pc = "idle" /\ tasks'[t].pc \in {"s_validate", "s_update"})
            => ~contests[tasks'[t].ev.contest].stopped
       /\ ( /\ outcome'.ev.kind = "stop_contest"
            /\ tasks' = tasks
            /\ outcome'.ev.contest \in ContestIds
            /\ contests[outcome'.ev.contest].exists
            /\ contests[outcome'.ev.contest].stopped )
          => /\ outcome'.pc = "done"
             /\ outcome'.sent = {"AlreadyStopped", "ManageMenu"}
             /\ contests' = contests
             /\ invitations' = invitations
             /\ contacted' = contacted]_vars

\* a stop_contest was refused for a stopped contest that has an invitation
C12_StopRefused ==
    /\ outcome.pc = "done"
    /\ outcome.ev.kind = "stop_contest"
    /\ "AlreadyStopped" \in outcome.sent
    /\ contests[outcome.ev.contest].stopped
    /\ \E i \in invitations : i.contest = outcome.ev.contest

\* C13: in every state a contest that is stopped has its started_at set; in
\* particular stop_contest on a contest that was never started does not mark
\* it stopped.
C13_StoppedWasStarted ==
    \A c \in ContestIds :
        (contests[c].exists /\ contests[c].stopped) => contests[c].started_at # Null

\* C14: when the user is a member after the wait but the current time is past
\* the contest's end, no invitation is inserted and the user is told that the
\* contest is finished.
C14_NoInvitationAfterTheEnd ==
    [][\A t \in TaskIds :
          ( /\ tasks[t].pc = "a_get"
            /\ tasks'[t] # tasks[t]
            /\ ~contests_get_panics(tasks[t].ev.contest)
            /\ now > contests[tasks[t].ev.contest].end )
          => /\ tasks[t].lookup = "member"
             /\ tasks'[t] = Idle
             /\ outcome'.pc = "done"
             /\ outcome'.ev = tasks[t].ev
             /\ "Finished" \in outcome'.sent
             /\ "Joined" \notin outcome'.sent
             /\ invitations' = invitations]_vars

\* an accept ended with the notice that the contest is finished
C14_ToldFinished ==
    /\ outcome.pc = "done"
    /\ outcome.ev.kind = "accept"
    /\ outcome.lookup = "member"
    /\ "Finished" \in outcome.sent
    /\ now > contests[outcome.ev.contest].end

\* C15: when the first membership check finds the user already a member of
\* the channel, the user is told so and the flow ends there: no wait, no
\* second check, no invitation.
C15_MemberAtFirstCheckEnds ==
    [][/\ \A t \in TaskIds :
            (tasks[t].pc = "idle" /\ tasks'[t].pc = "a_wait")
            => tasks'[t].lookup # "member"
       /\ ( /\ outcome'.ev.kind = "accept"
            /\ outcome'.checks = 1
            /\ outcome'.lookup = "member" )
          => /\ outcome'.pc = "done"
             /\ outcome'.sent = {"AlreadyMember"}
             /\ tasks' = tasks
             /\ invitations' = invitations]_vars

\* an accept ended at its first check, the user being a member
C15_AlreadyMember ==
    /\ outcome.pc = "done"
    /\ outcome.ev.kind = "accept"
    /\ outcome.checks = 1
    /\ outcome.lookup = "member"
    /\ "AlreadyMember" \in outcome.sent

\* C16: no row of invitations has source = dest; an accept whose source and
\* dest are the same user never creates an invitation.
C16_NoSelfInvitation ==
    /\ \A i \in invitations : i.source # i.dest
    /\ ( /\ outcome.ev.kind = "accept"
         /\ outcome.ev.source = outcome.ev.dest )
       => "Joined" \notin outcome.sent

\* an accept with source = dest reached the INSERT, which was refused
C16_SelfInvitationRefused ==
    /\ outcome.pc = "done"
    /\ outcome.ev.kind = "accept"
    /\ outcome.ev.source = outcome.ev.dest
    /\ "MightExist" \in outcome.sent
    /\ ~\E i \in invitations : i.source = outcome.ev.source /\ i.chan = outcome.ev.chan

\* C17: among the inviters of a contest that have the same number of
\* invitations, the ranking gives the smaller rank to the higher user id.
C17_TiesGoToTheHigherId ==
    \A c \in ContestIds :
        LET rank == ranking(invitations, c)
        IN  \A i, j \in DOMAIN rank :
                (rank[i].invites = rank[j].invites /\ rank[i].user > rank[j].user)
                => rank[i].rank < rank[j].rank

\* a leaderboard was published for a contest with two inviters on a par, and
\* the first row went to the one with the higher id
C17_TiePublished ==
    /\ outcome.pc = "done"
    /\ outcome.ev.kind = "stop_contest"
    /\ "Leaderboard" \in outcome.sent
    /\ \E a, b \in Inviters(invitations, outcome.ev.contest) :
          /\ a < b
          /\ InviteCount(invitations, outcome.ev.contest, a)
               = InviteCount(invitations, outcome.ev.contest, b)
          /\ outcome.winner = b

\* C18: the ranking of a contest with N inviters has N rows whose ranks are
\* exactly 1..N, each once and each inviter once (so exactly one row has rank
\* 1, ties included); the window's order decides every pair of inviters, so
\* two evaluations over the same rows give the same list.
C18_RanksAreOneToN ==
    \A c \in ContestIds :
        LET who == Inviters(invitations, c)
            N == Cardinality(who)
        IN  /\ \A a, b \in who :
                  a # b => (RankBefore(invitations, c, a, b)
                              # RankBefore(invitations, c, b, a))
            /\ {RowNumber(invitations, c, s) : s \in who} = 1..N
            /\ LET rank == ranking(invitations, c)
               IN  /\ Len(rank) = N
                   /\ \A r \in 1..N : rank[r].rank = r
                   /\ {rank[r].user : r \in 1..N} = who
                   /\ N > 0 => Cardinality({r \in 1..N : rank[r].rank = 1}) = 1

\* a leaderboard was published for a contest whose three inviters are all on
\* a par
C18_ThreeWayTiePublished ==
    /\ outcome.pc = "done"
    /\ outcome.ev.kind = "stop_contest"
    /\ "Leaderboard" \in outcome.sent
    /\ Cardinality(Inviters(invitations, outcome.ev.contest)) = 3
    /\ \A a \in Inviters(invitations, outcome.ev.contest) :
          InviteCount(invitations, outcome.ev.contest, a) = 1

\* C19: the /rank command returns one entry for every contest in which the
\* user has an invitation (as its source), and the rank of each entry is the
\* rank the ranking of that contest gives to the user.
C19_RankAsInTheRanking ==
    outcome.ev.kind = "rank" =>
        /\ DOMAIN outcome.ranks =
              {c \in ContestIds : outcome.ev.sender \in Inviters(invitations, c)}
        /\ \A c \in DOMAIN outcome.ranks :
              outcome.ranks[c] = RowNumber(invitations, c, outcome.ev.sender)

\* C21: a text of two rows from an owner who has a channel being managed is
\* rejected with an error reported to the owner; no contest is created and
\* the row of being_managed_channels stays.
C21_TwoRowsRejected ==
    [][\A u \in Users : \A text \in Texts :
          ( /\ outcome'.ev.kind = "message"
            /\ Len(SkipWhileEmpty(text)) = 2
            /\ u \in owners
            /\ LatestManaged(u) # Null
            /\ Message(u, text) )
          => /\ outcome'.sent # {}
             /\ contests' = contests
             /\ managed' = managed]_vars

\* C22: a free text from a user who has registered no channel changes
\* nothing in the store and sends nothing.
C22_StrangerIsIgnored ==
    [][\A u \in Users : \A text \in Texts :
          ( /\ outcome'.ev.kind = "message"
            /\ \A ch \in Chans : channels[ch].registered_by # u
            /\ Message(u, text) )
          => /\ outcome'.pc = "done"
             /\ outcome'.sent = {}
             /\ contests' = contests
             /\ nextContest' = nextContest
             /\ invitations' = invitations
             /\ managed' = managed
             /\ contacted' = contacted]_vars

\* a text came from a user without channels while a channel was being managed
C22_StrangerWrote ==
    /\ outcome.pc = "done"
    /\ outcome.ev.kind = "message"
    /\ outcome.ev.sender \in Users
    /\ \A ch \in Chans : channels[ch].registered_by # outcome.ev.sender
    /\ managed # <<>>
    /\ outcome.sent = {}

\* C23: a text of three rows that parses, from an owner, creates exactly one
\* draft contest, on the channel of the latest row of being_managed_channels
\* among the channels the sender registered; never on a channel of someone
\* else; and with no such row no contest is created.
C23_DraftOnTheLatestManaged ==
    [][\A u \in Users : \A text \in Texts :
          ( /\ outcome'.ev.kind = "message"
            /\ Len(SkipWhileEmpty(text)) = 3
            /\ \E ch \in Chans : channels[ch].registered_by = u
            /\ Message(u, text) )
          => LET mine == {k \in 1..Len(managed) : channels[managed[k]].registered_by = u}
                 changed == {c \in ContestIds : contests'[c] # contests[c]}
             IN  IF mine = {}
                 THEN changed = {} /\ outcome'.sent = {}
                 ELSE LET ch == managed[CHOOSE k \in mine : \A j \in mine : j <= k]
                          rows == SkipWhileEmpty(text)
                      IN  IF from_text(text, ch, now).ok /\ ContestInsertOk(rows[1].txt, ch)
                          THEN /\ changed = {nextContest}
                               /\ ~contests[nextContest].exists
                               /\ contests'[nextContest].exists
                               /\ contests'[nextContest].chan = ch
                               /\ contests'[nextContest].name = rows[1].txt
                               /\ contests'[nextContest].started_at = Null
                               /\ ~contests'[nextContest].stopped
                               /\ "Created" \in outcome'.sent
                          ELSE changed = {}]_vars

\* a contest was created on the sender's channel while the latest row of
\* being_managed_channels is a channel of someone else, and the sender has an
\* earlier row for another of its channels
C23_CreatedOnOwnChannel ==
    /\ outcome.pc = "done"
    /\ outcome.ev.kind = "message"
    /\ "Created" \in outcome.sent
    /\ Len(managed) = 3
    /\ channels[managed[3]].registered_by # outcome.ev.sender
    /\ channels[managed[2]].registered_by = outcome.ev.sender
    /\ channels[managed[1]].registered_by = outcome.ev.sender
    /\ managed[1] # managed[2]
    /\ contests[outcome.ev.contest].chan = managed[2]

\* C24: for every assignment m of integers to some of the keys source, chan,
\* contest, decoding the token made by encoding m gives m back: the keys of m
\* with their values, and -1 for every key m does not have.
C24_TokenRoundTrip ==
    [][\A u \in Users : \A m \in TokenMaps :
          StartCommand(u, TokenOf(m))
          => /\ outcome'.ev.kind = "start"
             /\ \A k \in Keys :
                  LET got == CASE k = "source" -> outcome'.ev.source
                               [] k = "chan" -> outcome'.ev.chan
                               [] k = "contest" -> outcome'.ev.contest
                  IN  got = IF k \in DOMAIN m THEN m[k] ELSE -1]_vars

\* a link with a negative channel id, a contest and no source was decoded
C24_LinkDecoded ==
    /\ outcome.ev.kind = "start"
    /\ outcome.ev.chan = -MaxId
    /\ outcome.ev.contest = 1
    /\ outcome.ev.source = -1

\* C25: a callback that is not a well-formed command (an unknown name, or a
\* known name with a missing argument) gets an empty acknowledgement, changes
\* nothing in the store, and its handler returns normally.
C25_NonsenseIsAcknowledged ==
    [][( \/ \E u \in Users : Unknown(u)
         \/ \E n \in {"manage", "start_contest", "tick"} : Malformed(n) )
       => /\ outcome'.pc = "done"
          /\ outcome'.acks = 1
          /\ outcome'.sent = {}
          /\ contests' = contests
          /\ invitations' = invitations
          /\ managed' = managed
          /\ contacted' = contacted]_vars

\* C26: once start_contest has run its UPDATE on a draft, started_at is set
\* whether the announcement in the channel and its pin succeed or fail; a
\* failed pin is reported to the user, and no step sets started_at back to
\* null.
C26_StartedWhateverTheAnnouncement ==
    [][/\ \A t \in TaskIds :
            ( /\ tasks[t].pc = "st_update"
              /\ tasks'[t] # tasks[t]
              /\ contests[tasks[t].ev.contest].exists )
            => /\ contests'[tasks[t].ev.contest].started_at = now
               /\ outcome'.pc = "done"
               /\ outcome'.sent \cap {"Announcement", "AnnouncementFailed"} # {}
               /\ "ContestStarted" \in outcome'.sent
       /\ \A c \in ContestIds :
            (contests[c].started_at # Null /\ contests'[c].exists)
            => contests'[c].started_at # Null]_vars

\* a contest was started, its announcement sent, and the pin failed
C26_StartedButNotPinned ==
    /\ outcome.pc = "done"
    /\ outcome.ev.kind = "start_contest"
    /\ "PinError" \in outcome.sent
    /\ contests[outcome.ev.contest].started_at = now

\* C27: a submission is accepted only if its end date is strictly later than
\* the moment of parsing: with an end date equal to or before the current
\* time it is rejected and no contest is created.
C27_EndMustBeInTheFuture ==
    [][\A u \in Users : \A text \in Texts :
          ( /\ outcome'.ev.kind = "message"
            /\ Len(SkipWhileEmpty(text)) = 3
            /\ SkipWhileEmpty(text)[2].date # Null
            /\ SkipWhileEmpty(text)[2].date <= now
            /\ Message(u, text) )
          => /\ contests' = contests
             /\ "Created" \notin outcome'.sent]_vars

\* C28: when the contest of an accept does not exist at the lookup after the
\* wait, the handler tells the user that the contest does not exist, inserts
\* no invitation, and returns normally.
C28_MissingContestIsReported ==
    [][\A t \in TaskIds :
          ( /\ tasks[t].pc = "a_get"
            /\ tasks'[t] # tasks[t]
            /\ ~contests[tasks[t].ev.contest].exists )
          => /\ outcome'.pc = "done"
             /\ outcome'.sent # tasks[t].sent
             /\ invitations' = invitations]_vars

\* C29: of the stop_contest events on one (started) contest that are handled
\* at the same time, only one runs the finalization: when a handler publishes the
\* leaderboard, no other handler of the same contest is past the test of
\* c.stopped and about to publish its own.
C29_FinalizedOnce ==
    [][\A t \in TaskIds :
          ( /\ tasks[t].pc = "s_rank"
            /\ tasks'[t] # tasks[t]
            /\ contests[tasks[t].ev.contest].started_at # Null
            /\ "Leaderboard" \in outcome'.sent )
          => \A u \in TaskIds \ {t} :
                ~( /\ tasks[u].pc = "s_rank"
                   /\ tasks[u].ev.contest = tasks[t].ev.contest )]_vars

\* C30: an accept handler suspended in its sleep blocks nothing and ends.
\* While a handler waits, a text and a delete_contest can be handled, a new
\* accept, start_contest or stop_contest can begin in a free invocation, and
\* every other invocation in flight can take its next step; and every
\* handler that waits is eventually resumed and terminates.
C30_OthersGoOn ==
    \A t \in 1..MaxTasks :
       (tasks[t].pc = "a_wait" /\ Ready) =>
          /\ ENABLED (\E u \in Users, text \in Texts : Message(u, text))
          /\ ENABLED (\E data \in ContestData : DeleteContest(data))
          /\ \A s \in 1..MaxTasks :
                FreeSlot(s) =>
                   /\ ENABLED (\E data \in ContestData : StartBegin(s, data))
                   /\ ENABLED (\E data \in ContestData : StopBegin(s, data))
                   /\ Cardinality(invitations) + InFlight("accept") < MaxInvites
                         => ENABLED (\E data \in AcceptData : AcceptBegin(s, data))
          /\ \A s \in 1..MaxTasks :
                /\ tasks[s].pc = "a_wait" => ENABLED AcceptRecheck(s)
                /\ tasks[s].pc = "a_get" => ENABLED AcceptGet(s)
                /\ tasks[s].pc = "a_insert" => ENABLED AcceptInsert(s)
                /\ tasks[s].pc = "s_validate" => ENABLED StopValidate(s)
                /\ tasks[s].pc = "s_update" => ENABLED StopUpdate(s)
                /\ tasks[s].pc = "s_rank" => ENABLED StopRank(s)
                /\ tasks[s].pc = "st_update" => ENABLED StartUpdate(s)

C31_StoppedWithNobodyToRank ==
    [][\A t \in TaskIds :
          LET c == tasks[t].ev.contest
          IN  /\ ( /\ tasks[t].pc = "s_update"
                   /\ tasks'[t] # tasks[t]
                   /\ contests[c].started_at # Null )
                 => contests'[c].stopped
              /\ ( /\ tasks[t].pc = "s_rank"
                   /\ tasks'[t] # tasks[t]
                   /\ contests[c].started_at # Null
                   /\ ~\E i \in invitations : i.contest = c )
                 => /\ contests'[c].stopped
                    /\ outcome'.pc = "done"
                    /\ outcome'.sent = {"NoOne", "ManageMenu"}
                    /\ contacted' = contacted]_vars

\* a stop_contest on a started contest has ended with the notice that no one
\* participated, and the contest is stopped
C31_NobodyParticipated ==
    /\ outcome.pc = "done"
    /\ outcome.ev.kind = "stop_contest"
    /\ "NoOne" \in outcome.sent
    /\ contests[outcome.ev.contest].started_at # Null
    /\ contests[outcome.ev.contest].stopped
    /\ ~\E i \in invitations : i.contest = outcome.ev.contest

\* C32: the user stop_contest treats as the winner (named to the owner, or
\* put into being_contacted_users) is the user of the row of the ranking
\* whose rank is 1.
C32_WinnerHasRankOne ==
    [][\A t \in TaskIds :
          LET c == tasks[t].ev.contest
              rank == ranking(invitations, c)
          IN  ( /\ tasks[t].pc = "s_rank"
                /\ tasks'[t] # tasks[t]
                /\ Inviters(invitations, c) # {} )
              => \E r \in DOMAIN rank :
                    /\ rank[r].rank = 1
                    /\ RowNumber(invitations, c, rank[r].user) = 1
                    /\ outcome'.winner = rank[r].user
                    /\ contacted' # contacted
                          => contacted'[Len(contacted')].user = rank[r].user]_vars

\* a winner was named for a contest with more than one inviter
C32_WinnerAmongSeveral ==
    /\ outcome.pc = "done"
    /\ outcome.ev.kind = "stop_contest"
    /\ outcome.winner # Null
    /\ Cardinality(Inviters(invitations, outcome.ev.contest)) > 1
    /\ RowNumber(invitations, outcome.ev.contest, outcome.winner) = 1

\* C33: every callback whose handler runs to its end is acknowledged
\* (answer_callback_query) exactly once, whichever branch it is dispatched
\* to, the main menu included.
C33_AcknowledgedOnce ==
    ( /\ outcome.pc = "done"
      /\ outcome.ev.kind \in {"accept", "reject", "manage", "main", "create", "delete",
                              "stop", "start", "list", "delete_contest",
                              "start_contest", "stop_contest", "unknown"} )
    => outcome.acks = 1

\* C34: the contest of every invitation is a contest of the invitation's
\* channel, and /start offers an invitation or a referral link only for a
\* contest of the channel the token names.
C34_ContestOfTheSameChannel ==
    /\ \A i \in invitations :
          (i.contest \in ContestIds /\ contests[i.contest].exists)
             => contests[i.contest].chan = i.chan
    /\ ( /\ outcome.pc = "done"
         /\ outcome.ev.kind = "start"
         /\ outcome.sent \cap {"Invited", "InviteLink"} # {} )
       => contests[outcome.ev.contest].chan = outcome.ev.chan

\* the branch of the callback handler that a step belongs to: the branch of
\* the invocation that ends in the step or moves on in it
BranchOfTheStep ==
    IF outcome' # Idle THEN outcome'.ev.kind
    ELSE IF \E t \in TaskIds : tasks'[t] # tasks[t]
    THEN LET t == CHOOSE u \in TaskIds : tasks'[u] # tasks[u] IN tasks'[t].ev.kind
    ELSE "none"

\* the callbacks of the buttons are each dispatched to the branch their
\* first word names
C35_DispatchedByName ==
    /\ \A data \in ContestData \cup MenuData : Dispatch(data.name) = data.name
    /\ \A data \in AcceptData : Dispatch(data.name) = "accept"
    /\ Dispatch("cross") = "reject"

\* C35: a well-formed callback runs one action, the one its first word
\* names.  start_contest, stop_contest and delete_contest with a channel and
\* a contest run the per-contest action and not the selector of the same
\* prefix: only a start_contest sets started_at, only a stop_contest sets
\* stopped, only a delete_contest removes a contest, and the selectors change
\* nothing; an accept or a reject changes no contest and no pending edit or
\* contact.
C35_OneActionByName ==
    /\ []C35_DispatchedByName
    /\ [][ /\ \A c \in ContestIds :
                /\ (contests[c].exists /\ ~contests'[c].exists)
                      => BranchOfTheStep = "delete_contest"
                /\ (contests[c].exists /\ contests'[c].exists
                       /\ contests'[c].started_at # contests[c].started_at)
                      => BranchOfTheStep = "start_contest"
                /\ (contests[c].exists /\ contests'[c].exists
                       /\ contests'[c].stopped # contests[c].stopped)
                      => BranchOfTheStep = "stop_contest"
           /\ BranchOfTheStep \in {"start", "stop", "delete"}
                 => /\ contests' = contests
                    /\ invitations' = invitations
                    /\ managed' = managed
                    /\ contacted' = contacted
                    /\ tasks' = tasks
           /\ BranchOfTheStep \in {"accept", "reject"}
                 => /\ contests' = contests
                    /\ managed' = managed
                    /\ contacted' = contacted ]_vars

\* a start_contest callback has started its contest
C35_PerContestStartRan ==
    /\ outcome.pc = "done"
    /\ outcome.ev.kind = "start_contest"
    /\ "ContestStarted" \in outcome.sent
    /\ contests[outcome.ev.contest].started_at # Null

\* C36: a /start whose token has no contest key, or names a contest that
\* does not exist, is handled as a link without a contest: it shows neither
\* the invitation nor a referral link, writes nothing about invitations, and
\* its handler returns normally.
C36_NoContestNoInvitation ==
    ( /\ outcome.pc # "idle"
      /\ outcome.ev.kind = "start"
      /\ \/ outcome.ev.contest \notin ContestIds
         \/ ~contests[outcome.ev.contest].exists )
    => /\ outcome.pc = "done"
       /\ outcome.sent \cap {"Invited", "InviteLink"} = {}
       /\ invitations = {}

\* C37: a contest is created from a text only when the text is three rows
\* none of which is empty: every contest in the store has a name and a prize
\* that are not empty.
C37_NameAndPrizeNotEmpty ==
    \A c \in ContestIds :
        contests[c].exists => (contests[c].name # "" /\ contests[c].prize # "")

\* C38: the events manage, main, start, stop, delete and list leave every
\* table as it is (users, channels, contests, invitations,
\* being_managed_channels, being_contacted_users); a step that changes a
\* table belongs to a create, a start_contest, a stop_contest, a
\* delete_contest, an accept, or a text sent by an owner.
C38_MenusChangeNothing ==
    [][ /\ BranchOfTheStep \in {"manage", "main", "start", "stop", "delete", "list"}
              => StoreUnchanged
        /\ ~StoreUnchanged
              => /\ BranchOfTheStep \in {"create", "start_contest", "stop_contest",
                                         "delete_contest", "accept", "message"}
                 /\ BranchOfTheStep = "message" => outcome'.ev.sender \in owners ]_vars

\* a menu or a selector has been shown while the store held a contest and
\* an invitation
C38_MenuOverAFullStore ==
    /\ outcome.pc = "done"
    /\ outcome.ev.kind \in {"manage", "main", "start", "stop", "delete", "list"}
    /\ \E c \in ContestIds : contests[c].exists
    /\ invitations # {}
    /\ managed # <<>>

\* C39: a turn of the pruning of stop_contest for a contest deletes no
\* invitation of another contest, whether it has the same dest or the same
\* channel as a row that is deleted.
C39_OtherContestsKeepTheirRows ==
    [][\A t \in TaskIds :
          (tasks[t].pc = "s_validate" /\ tasks'[t] # tasks[t])
          => /\ \A i \in invitations :
                   i.contest # tasks[t].ev.contest => i \in invitations'
             /\ invitations' \subseteq invitations]_vars

\* the pruning of a contest has ended with a failed lookup and has left no
\* invitation of the contest, while another contest of the same channel
\* keeps its invitations
C39_PrunedHereKeptThere ==
    \E t \in TaskIds :
        /\ tasks[t].ev.kind = "stop_contest"
        /\ tasks[t].pc = "s_update"
        /\ tasks[t].lookup = "error"
        /\ ~\E i \in invitations : i.contest = tasks[t].ev.contest
        /\ \E i \in invitations :
              i.contest # tasks[t].ev.contest /\ i.chan = tasks[t].ev.chan

=============================================================================
